---- MODULE Spec2Model ----
(***************************************************************************)
(* A model of invoice-digest: the file classifier, the per-file extraction *)
(* (extract_invoice_data), the thread-pool fan-out                         *)
(* (extract_from_multiple_files) and the directory run (process_directory).*)
(*                                                                         *)
(* A path or an extension is a sequence of one-character strings, so that  *)
(* suffix, stem and lower-casing are computed as pathlib and str compute   *)
(* them.                                                                   *)
(***************************************************************************)
EXTENDS Integers, Sequences, FiniteSets, TLC

VARIABLES
    entry,        \* "api": a caller invokes extract_from_multiple_files;
                  \* "dir": main.py is run on a directory; "classify": the
                  \* classifier alone is exercised
    dirFiles,     \* names of the regular files of the input directory
    outputs,      \* output directory: file name -> saved JSON content
    file_paths,   \* argument of extract_from_multiple_files
    max_workers,  \* argument of extract_from_multiple_files
    pc,           \* position of the issuing thread
    executor,     \* TRUE while the ThreadPoolExecutor of the with-block exists
    submitted,    \* number of executor.submit calls made so far
    queue,        \* the executor's work queue (task indices, FIFO)
    numThreads,   \* worker threads the executor has started
    st,           \* per task: "none", "queued", "running", "calling", "ok", "failed"
    outcome,      \* per task: the future's result or exception
    collected,    \* tasks whose future as_completed has yielded
    results,      \* the result map under construction
    idle,         \* the executor's idle semaphore (workers that finished an item)
    answer,       \* per task: what the endpoint returned to it, if it returned
    calls,        \* per task: number of calls made to the model endpoint
    writes,       \* per task: number of writes to results made for it
    clsExt,       \* classifier harness: the extension under test
    clsOut        \* classifier harness: outcome of _get_file_type/_get_mime_type

vars == <<entry, dirFiles, outputs, file_paths, max_workers, pc, executor,
          submitted, queue, numThreads, idle, st, outcome, answer, collected,
          results, calls, writes, clsExt, clsOut>>

poolVars == <<executor, submitted, queue, numThreads, idle, st, outcome,
              answer, collected, results, calls, writes>>

(***************************************************************************)
(* Bounds of the model.                                                    *)
(***************************************************************************)
MaxFiles == 2

\* max_workers is drawn from 1 .. MaxFiles + 1: fewer than, equal to and more
\* than the number of paths all occur.
WorkerChoices == 1 .. (MaxFiles + 1)

(***************************************************************************)
(* Characters and str.lower().                                             *)
(***************************************************************************)
LowerLetters == <<"a","b","c","d","e","f","g","h","i","j","k","l","m",
                  "n","o","p","q","r","s","t","u","v","w","x","y","z">>
UpperLetters == <<"A","B","C","D","E","F","G","H","I","J","K","L","M",
                  "N","O","P","Q","R","S","T","U","V","W","X","Y","Z">>

LowerChar(c) ==
    IF \E k \in DOMAIN UpperLetters : UpperLetters[k] = c
    THEN LowerLetters[CHOOSE k \in DOMAIN UpperLetters : UpperLetters[k] = c]
    ELSE c

UpperChar(c) ==
    IF \E k \in DOMAIN LowerLetters : LowerLetters[k] = c
    THEN UpperLetters[CHOOSE k \in DOMAIN LowerLetters : LowerLetters[k] = c]
    ELSE c

Lower(s) == [k \in 1..Len(s) |-> LowerChar(s[k])]

(***************************************************************************)
(* pathlib: Path(p).suffix and Path(p).stem of a one-component path.       *)
(* The suffix starts at the last dot of the name, unless that dot is the   *)
(* first character (or there is none), and then it is empty.               *)
(***************************************************************************)
LastDot(p) ==
    IF \E k \in 1..Len(p) : p[k] = "."
    THEN CHOOSE k \in 1..Len(p) : p[k] = "." /\ \A j \in (k+1)..Len(p) : p[j] # "."
    ELSE 0

Suffix(p) == IF LastDot(p) > 1 THEN SubSeq(p, LastDot(p), Len(p)) ELSE <<>>

Stem(p) == IF LastDot(p) > 1 THEN SubSeq(p, 1, LastDot(p) - 1) ELSE p

(***************************************************************************)
(* The processor's tables (MultimodalInvoiceProcessor.__init__).           *)
(***************************************************************************)
supported_image_formats ==
    { <<".","p","n","g">>, <<".","j","p","g">>, <<".","j","p","e","g">>,
      <<".","g","i","f">>, <<".","w","e","b","p">> }

supported_pdf_formats == { <<".","p","d","f">> }

\* self.model: the constructor's default
DefaultModel == "gpt-4o"

UnsupportedFormat(ext) ==
    [type |-> "ValueError", msg |-> <<"Unsupported file format: ", ext>>]

\* _get_file_type, on the path's suffix
FileTypeOfExt(ext) ==
    IF Lower(ext) \in supported_image_formats THEN [ok |-> TRUE, kind |-> "image"]
    ELSE IF Lower(ext) \in supported_pdf_formats THEN [ok |-> TRUE, kind |-> "pdf"]
    ELSE [ok |-> FALSE, exc |-> UnsupportedFormat(Lower(ext))]

_get_file_type(p) == FileTypeOfExt(Suffix(p))

\* mutant of mime_types: the table misses an extension of the kind sets
mime_types_unsynced ==
    { <<<<".","p","n","g">>, "image/png">>,
      <<<<".","j","p","g">>, "image/jpeg">>,
      <<<<".","j","p","e","g">>, "image/jpeg">>,
      <<<<".","g","i","f">>, "image/gif">>,
      <<<<".","p","d","f">>, "application/pdf">> }

\* the mime_types dictionary of _get_mime_type
mime_types ==
    { <<<<".","p","n","g">>, "image/png">>,
      <<<<".","j","p","g">>, "image/jpeg">>,
      <<<<".","j","p","e","g">>, "image/jpeg">>,
      <<<<".","g","i","f">>, "image/gif">>,
      <<<<".","w","e","b","p">>, "image/webp">>,
      <<<<".","p","d","f">>, "application/pdf">> }

MimeFallback == "application/octet-stream"

\* _get_mime_type, on the path's suffix: mime_types.get(extension, fallback)
MimeTypeOfExt(ext) ==
    IF \E e \in mime_types : e[1] = Lower(ext)
    THEN (CHOOSE e \in mime_types : e[1] = Lower(ext))[2]
    ELSE MimeFallback

_get_mime_type(p) == MimeTypeOfExt(Suffix(p))

(***************************************************************************)
(* Classifier harness: extensions in every mix of upper and lower case.    *)
(***************************************************************************)
CaseVariants(e) ==
    { [k \in 1..Len(e) |-> IF up[k] THEN UpperChar(e[k]) ELSE e[k]] :
        up \in [1..Len(e) -> BOOLEAN] }

OtherExts ==
    { <<>>, <<".","t","x","t">>, <<".","d","o","c">>, <<".","b","m","p">>,
      <<".","p","n">>, <<".","p","n","g","x">>, <<".","t","i","f","f">>,
      <<".","j","s","o","n">>, <<"p","n","g">> }

ExtUniverse ==
    UNION { CaseVariants(e) :
              e \in supported_image_formats \cup supported_pdf_formats \cup OtherExts }

(***************************************************************************)
(* The file system and the inputs a caller may pass.                       *)
(***************************************************************************)
PngPath == <<"a",".","p","n","g">>
PdfPath == <<"a",".","P","D","F">>
TxtPath == <<"n",".","t","x","t">>
MissingPath == <<"m",".","j","p","g">>
MissingDocPath == <<"x",".","d","o","c">>

PathUniverse == {PngPath, PdfPath, TxtPath, MissingPath, MissingDocPath}

\* the files that exist (Path.exists)
ExistingFiles == {PngPath, PdfPath, TxtPath}

SeqsUpTo(S, n) == UNION { [1..k -> S] : k \in 0..n }

\* mutant of StrOf: the map is keyed by the name without its suffix
StemOf(p) == Stem(p)

\* str(file_path): the caller passes str objects, and str of a str is that str
StrOf(p) == p

(***************************************************************************)
(* Dictionaries: a function from keys to values; d[k] = v adds or replaces.*)
(***************************************************************************)
EmptyDict == [k \in {} |-> 0]

Put(d, k, v) == [x \in (DOMAIN d) \cup {k} |-> IF x = k THEN v ELSE d[x]]

(***************************************************************************)
(* extract_invoice_data up to the API call (lines 108-122).                *)
(***************************************************************************)
FileNotFound(p) == [type |-> "FileNotFoundError", msg |-> <<"File not found: ", p>>]

\* _encode_file_to_base64: the encoded bytes of the file at p
Base64Of(p) == <<"base64", p>>

_create_content_for_image(p) ==
    <<[type |-> "text"],
      [type |-> "image_url", mime |-> _get_mime_type(p), data |-> Base64Of(p)]>>

_create_content_for_pdf(p) ==
    <<[type |-> "text"],
      [type |-> "file", filename |-> p, mime |-> "application/pdf",
       data |-> Base64Of(p)]>>

\* mutant of LocalPhase: the file type is determined before the file is
\* looked for
LocalPhaseClassifyFirst(p) ==
    LET ft == _get_file_type(p) IN
    IF ~ft.ok
    THEN [ok |-> FALSE, exc |-> ft.exc]
    ELSE IF p \notin ExistingFiles
    THEN [ok |-> FALSE, exc |-> FileNotFound(p)]
    ELSE [ok |-> TRUE, file_type |-> ft.kind,
          content |-> IF ft.kind = "image"
                      THEN _create_content_for_image(p)
                      ELSE _create_content_for_pdf(p)]

LocalPhase(p) ==
    IF p \notin ExistingFiles
    THEN [ok |-> FALSE, exc |-> FileNotFound(p)]
    ELSE LET ft == _get_file_type(p) IN
         IF ~ft.ok
         THEN [ok |-> FALSE, exc |-> ft.exc]
         ELSE [ok |-> TRUE, file_type |-> ft.kind,
               content |-> IF ft.kind = "image"
                           THEN _create_content_for_image(p)
                           ELSE _create_content_for_pdf(p)]

(***************************************************************************)
(* The model endpoint: what a call may return or raise.                    *)
(***************************************************************************)
PlainFields ==
    ("invoice_number" :> "INV-001") @@ ("total_amount_due" :> "150.0")

\* EXTRACTION_SCHEMA does not forbid additional properties, and the request
\* does not ask for strict conformance: the returned object may carry a
\* property of any name.
ClashingFields == PlainFields @@ ("_metadata" :> [note |-> "from the model"])

Responses ==
    { [content |-> PlainFields,
       usage |-> [completion_tokens |-> 7, prompt_tokens |-> 11, total_tokens |-> 18]],
      [content |-> ClashingFields,
       usage |-> [completion_tokens |-> 9, prompt_tokens |-> 11, total_tokens |-> 20]] }

ApiErrors == {"rate limit exceeded", "malformed response"}

\* except Exception as e: raise RuntimeError(f"Error during API call: {str(e)}")
ApiCallError(cause) ==
    [type |-> "RuntimeError", msg |-> <<"Error during API call: ", cause>>]

\* result['_metadata'] = {...} (lines 143-150)
Metadata(p, file_type, model, usage) ==
    [file_path |-> p, file_type |-> file_type, model_used |-> model,
     completion_tokens |-> usage.completion_tokens,
     prompt_tokens |-> usage.prompt_tokens,
     total_tokens |-> usage.total_tokens]

\* lines 142-152: parse the content, attach the metadata, return
BuildResult(p, file_type, resp) ==
    Put(resp.content, "_metadata", Metadata(p, file_type, DefaultModel, resp.usage))

\* _extract_single_file_safe: every exception is re-raised as a RuntimeError
SafeWrap(p, e) ==
    [type |-> "RuntimeError", msg |-> <<"Error processing ", p, ": ", e.msg>>]

\* the entry the collector stores for a future that raised (lines 185-191)
FailureRecord(p, e) ==
    ("error" :> e.msg) @@ ("_metadata" :> [file_path |-> StrOf(p), status |-> "failed"])

IsFailureRecord(r) ==
    /\ DOMAIN r = {"error", "_metadata"}
    /\ DOMAIN r["_metadata"] = {"file_path", "status"}
    /\ r["_metadata"].status = "failed"

(***************************************************************************)
(* State of the fan-out.                                                   *)
(***************************************************************************)
Tasks == 1..Len(file_paths)

Pending == [pending |-> TRUE]

InFlight == {i \in DOMAIN st : st[i] \in {"running", "calling"}}

Finished == {i \in DOMAIN st : st[i] \in {"ok", "failed"}}

NoPool ==
    /\ executor = FALSE
    /\ submitted = 0
    /\ queue = <<>>
    /\ numThreads = 0
    /\ idle = 0
    /\ st = <<>>
    /\ outcome = <<>>
    /\ answer = <<>>
    /\ collected = {}
    /\ results = EmptyDict
    /\ calls = <<>>
    /\ writes = <<>>

InitApi ==
    /\ entry = "api"
    /\ dirFiles = {}
    /\ outputs = EmptyDict
    /\ file_paths \in SeqsUpTo(PathUniverse, MaxFiles)
    /\ max_workers \in WorkerChoices
    /\ pc = "start"
    /\ NoPool
    /\ clsExt = <<>>
    /\ clsOut = Pending

\* mutant of CreateExecutor: the pool starts its max_workers threads when it
\* is created
CreateExecutorEager ==
    /\ pc = "start"
    /\ pc' = "submit"
    /\ executor' = TRUE
    /\ numThreads' = max_workers
    /\ st' = [i \in Tasks |-> "none"]
    /\ outcome' = [i \in Tasks |-> Pending]
    /\ answer' = [i \in Tasks |-> Pending]
    /\ calls' = [i \in Tasks |-> 0]
    /\ writes' = [i \in Tasks |-> 0]
    /\ results' = EmptyDict
    /\ UNCHANGED <<entry, dirFiles, outputs, file_paths, max_workers, submitted,
                   queue, idle, collected, clsExt, clsOut>>

\* results = {} ; with ThreadPoolExecutor(max_workers=max_workers) as executor:
\* future_to_file = {}   (lines 168-172)
CreateExecutor ==
    /\ pc = "start"
    /\ pc' = "submit"
    /\ executor' = TRUE
    /\ st' = [i \in Tasks |-> "none"]
    /\ outcome' = [i \in Tasks |-> Pending]
    /\ answer' = [i \in Tasks |-> Pending]
    /\ calls' = [i \in Tasks |-> 0]
    /\ writes' = [i \in Tasks |-> 0]
    /\ results' = EmptyDict
    /\ UNCHANGED <<entry, dirFiles, outputs, file_paths, max_workers, submitted,
                   queue, numThreads, idle, collected, clsExt, clsOut>>

\* mutant of Submit: a thread is started for every task
SubmitUnbounded ==
    /\ pc = "submit"
    /\ submitted < Len(file_paths)
    /\ submitted' = submitted + 1
    /\ queue' = Append(queue, submitted + 1)
    /\ st' = [st EXCEPT ![submitted + 1] = "queued"]
    /\ numThreads' = numThreads + 1
    /\ UNCHANGED <<entry, dirFiles, outputs, file_paths, max_workers, pc, executor,
                   idle, outcome, answer, collected, results, calls, writes,
                   clsExt, clsOut>>

\* executor.submit(self._extract_single_file_safe, file_path) (lines 173-175):
\* the work item is queued, and a worker thread is started unless a worker
\* is idle or max_workers threads exist already.
Submit ==
    /\ pc = "submit"
    /\ submitted < Len(file_paths)
    /\ submitted' = submitted + 1
    /\ queue' = Append(queue, submitted + 1)
    /\ st' = [st EXCEPT ![submitted + 1] = "queued"]
    /\ IF idle > 0
       THEN idle' = idle - 1 /\ UNCHANGED numThreads
       ELSE /\ UNCHANGED idle
            /\ numThreads' = IF numThreads < max_workers
                             THEN numThreads + 1 ELSE numThreads
    /\ UNCHANGED <<entry, dirFiles, outputs, file_paths, max_workers, pc, executor,
                   outcome, collected, results, calls, writes, answer, clsExt, clsOut>>

\* for future in as_completed(future_to_file): (line 178)
BeginCollect ==
    /\ pc = "submit"
    /\ submitted = Len(file_paths)
    /\ pc' = "collect"
    /\ UNCHANGED <<entry, dirFiles, outputs, file_paths, max_workers, poolVars,
                   clsExt, clsOut>>

\* a worker thread that holds no work item takes the head of the queue
TaskStart(i) ==
    /\ executor
    /\ queue # <<>>
    /\ i = Head(queue)
    /\ numThreads - Cardinality(InFlight) > 0
    /\ queue' = Tail(queue)
    /\ st' = [st EXCEPT ![i] = "running"]
    /\ UNCHANGED <<entry, dirFiles, outputs, file_paths, max_workers, pc, executor,
                   submitted, numThreads, idle, outcome, collected, results,
                   calls, writes, answer, clsExt, clsOut>>

\* the task runs extract_invoice_data up to the API call: it raises, or it
\* issues the call (line 126)
TaskLocal(i) ==
    /\ i \in DOMAIN st
    /\ st[i] = "running"
    /\ LET r == LocalPhase(file_paths[i]) IN
       IF r.ok
       THEN /\ st' = [st EXCEPT ![i] = "calling"]
            /\ calls' = [calls EXCEPT ![i] = @ + 1]
            /\ UNCHANGED <<outcome, idle>>
       ELSE /\ st' = [st EXCEPT ![i] = "failed"]
            /\ outcome' = [outcome EXCEPT
                             ![i] = [ok |-> FALSE, exc |-> SafeWrap(file_paths[i], r.exc)]]
            /\ idle' = idle + 1
            /\ UNCHANGED calls
    /\ UNCHANGED <<entry, dirFiles, outputs, file_paths, max_workers, pc, executor,
                   submitted, queue, numThreads, collected, results, writes,
                   answer, clsExt, clsOut>>

\* the call returns: lines 142-152
EndpointReturn(i, resp) ==
    /\ i \in DOMAIN st
    /\ st[i] = "calling"
    /\ st' = [st EXCEPT ![i] = "ok"]
    /\ outcome' = [outcome EXCEPT
                     ![i] = [ok |-> TRUE,
                             value |-> BuildResult(file_paths[i],
                                                   LocalPhase(file_paths[i]).file_type,
                                                   resp)]]
    /\ answer' = [answer EXCEPT ![i] = resp]
    /\ idle' = idle + 1
    /\ UNCHANGED <<entry, dirFiles, outputs, file_paths, max_workers, pc, executor,
                   submitted, queue, numThreads, collected, results, calls, writes,
                   clsExt, clsOut>>

\* mutant of EndpointError: a rate-limited call is issued again
EndpointErrorRetry(i, cause) ==
    /\ i \in DOMAIN st
    /\ st[i] = "calling"
    /\ IF cause = "rate limit exceeded" /\ calls[i] < 2
       THEN /\ calls' = [calls EXCEPT ![i] = @ + 1]
            /\ UNCHANGED <<st, outcome, idle>>
       ELSE /\ st' = [st EXCEPT ![i] = "failed"]
            /\ outcome' = [outcome EXCEPT
                             ![i] = [ok |-> FALSE,
                                     exc |-> SafeWrap(file_paths[i], ApiCallError(cause))]]
            /\ idle' = idle + 1
            /\ UNCHANGED calls
    /\ UNCHANGED <<entry, dirFiles, outputs, file_paths, max_workers, pc, executor,
                   submitted, queue, numThreads, collected, results, writes,
                   answer, clsExt, clsOut>>

\* mutant of EndpointError: a failing task cancels the tasks still queued
EndpointErrorCancels(i, cause) ==
    /\ i \in DOMAIN st
    /\ st[i] = "calling"
    /\ st' = [j \in DOMAIN st |->
                IF j = i THEN "failed"
                ELSE IF st[j] = "queued" THEN "cancelled" ELSE st[j]]
    /\ queue' = <<>>
    /\ outcome' = [outcome EXCEPT
                     ![i] = [ok |-> FALSE,
                             exc |-> SafeWrap(file_paths[i], ApiCallError(cause))]]
    /\ idle' = idle + 1
    /\ UNCHANGED <<entry, dirFiles, outputs, file_paths, max_workers, pc, executor,
                   submitted, numThreads, collected, results, calls, writes,
                   answer, clsExt, clsOut>>

\* the call (or the parsing of its answer) raises: lines 154-155, then 203-204
EndpointError(i, cause) ==
    /\ i \in DOMAIN st
    /\ st[i] = "calling"
    /\ st' = [st EXCEPT ![i] = "failed"]
    /\ outcome' = [outcome EXCEPT
                     ![i] = [ok |-> FALSE,
                             exc |-> SafeWrap(file_paths[i], ApiCallError(cause))]]
    /\ idle' = idle + 1
    /\ UNCHANGED <<entry, dirFiles, outputs, file_paths, max_workers, pc, executor,
                   submitted, queue, numThreads, collected, results, calls, writes,
                   answer, clsExt, clsOut>>

\* mutant of Collect: a future that raised leaves no entry
CollectDropFailed(i) ==
    /\ pc = "collect"
    /\ i \in Finished
    /\ i \notin collected
    /\ collected' = collected \cup {i}
    /\ IF outcome[i].ok
       THEN /\ results' = Put(results, StrOf(file_paths[i]), outcome[i].value)
            /\ writes' = [writes EXCEPT ![i] = @ + 1]
       ELSE UNCHANGED <<results, writes>>
    /\ pc' = "collect"
    /\ UNCHANGED <<entry, dirFiles, outputs, file_paths, max_workers, executor,
                   submitted, queue, numThreads, idle, st, outcome, calls,
                   answer, clsExt, clsOut>>

\* mutant of Collect: future.result() is not guarded, the exception of a
\* future that raised leaves the function
CollectNoCatch(i) ==
    /\ pc = "collect"
    /\ i \in Finished
    /\ i \notin collected
    /\ collected' = collected \cup {i}
    /\ IF outcome[i].ok
       THEN /\ results' = Put(results, StrOf(file_paths[i]), outcome[i].value)
            /\ writes' = [writes EXCEPT ![i] = @ + 1]
            /\ pc' = "collect"
       ELSE /\ pc' = "raised"
            /\ UNCHANGED <<results, writes>>
    /\ UNCHANGED <<entry, dirFiles, outputs, file_paths, max_workers, executor,
                   submitted, queue, numThreads, idle, st, outcome, calls,
                   answer, clsExt, clsOut>>

\* the body of the as_completed loop for one completed future (lines 179-192)
Collect(i) ==
    /\ pc = "collect"
    /\ i \in Finished
    /\ i \notin collected
    /\ collected' = collected \cup {i}
    /\ results' = Put(results, StrOf(file_paths[i]),
                      IF outcome[i].ok
                      THEN outcome[i].value
                      ELSE FailureRecord(file_paths[i], outcome[i].exc))
    /\ writes' = [writes EXCEPT ![i] = @ + 1]
    /\ pc' = "collect"
    /\ UNCHANGED <<entry, dirFiles, outputs, file_paths, max_workers, executor,
                   submitted, queue, numThreads, idle, st, outcome, calls,
                   answer, clsExt, clsOut>>

\* mutant of ExecutorExit: the function leaves after the first completed
\* future, without joining the workers
ExecutorExitEarly ==
    /\ pc = "collect"
    /\ collected # {} \/ Tasks = {}
    /\ pc' = "return"
    /\ executor' = FALSE
    /\ UNCHANGED <<entry, dirFiles, outputs, file_paths, max_workers, submitted,
                   queue, numThreads, idle, st, outcome, collected, results, calls,
                   writes, answer, clsExt, clsOut>>

\* as_completed is exhausted; leaving the with-block joins the workers
\* (ThreadPoolExecutor.__exit__ is shutdown(wait=True))
ExecutorExit ==
    /\ pc = "collect"
    /\ collected = Tasks
    /\ InFlight = {} /\ queue = <<>>
    /\ pc' = "return"
    /\ executor' = FALSE
    /\ numThreads' = 0
    /\ UNCHANGED <<entry, dirFiles, outputs, file_paths, max_workers, submitted,
                   queue, idle, st, outcome, collected, results, calls, writes,
                   answer, clsExt, clsOut>>

(***************************************************************************)
(* main.py: the module's imports, the construction of the processor, the   *)
(* directory listing and the saving of the results.                        *)
(***************************************************************************)
\* the names config.py binds
ConfigModule ==
    ("OPENAI_MODEL" :> "gpt-4o") @@ ("MAX_WORKERS" :> 5) @@
    ("EXTRACTION_SCHEMA" :> "schema")

\* from config import MODEL, MODEL_PROVIDER, MAX_WORKERS
MainImports == {"MODEL", "MODEL_PROVIDER", "MAX_WORKERS"}

MainImportsResolve == MainImports \subseteq DOMAIN ConfigModule

Imported(name) ==
    IF name \in DOMAIN ConfigModule THEN ConfigModule[name] ELSE "unbound"

\* def __init__(self, api_key=None, model="gpt-4o")
ConstructorParams == {"api_key", "model"}

\* MultimodalInvoiceProcessor(model=MODEL, model_provider=MODEL_PROVIDER)
ConstructorKeywords == {"model", "model_provider"}

\* a keyword the signature does not name raises TypeError
ConstructorAccepts == ConstructorKeywords \subseteq ConstructorParams

\* the files of the directory with a supported suffix (lines 35-40)
FilesToProcess(files) ==
    { f \in files :
        Lower(Suffix(f)) \in supported_image_formats \cup supported_pdf_formats }

\* iterdir yields the files in an arbitrary order
Orderings(S) ==
    { q \in [1..Cardinality(S) -> S] : \A a, b \in DOMAIN q : a # b => q[a] # q[b] }

\* f"{file_path.stem}_extracted_{MODEL}_v1.json"
OutputFile(key) == <<Stem(key), "_extracted_", Imported("MODEL"), "_v1.json">>

\* the loop of lines 53-57 over result.items(), each save_results replacing
\* the file of that name: every output file holds the entry saved to it
\* last, and the map's order is the order of completion
SaveAll(res) ==
    LET names == { OutputFile(k) : k \in DOMAIN res } IN
    { [n \in names |-> res[last[n]]] :
        last \in { f \in [names -> DOMAIN res] : \A n \in names : OutputFile(f[n]) = n } }

DirUniverse == ExistingFiles

InitDir ==
    /\ entry = "dir"
    /\ dirFiles \in SUBSET DirUniverse
    /\ outputs = EmptyDict
    /\ file_paths = <<>>
    /\ max_workers = 0
    /\ pc = "main"
    /\ NoPool
    /\ clsExt = <<>>
    /\ clsOut = Pending

\* python main.py: the import of line 5, then process_directory up to the
\* call of extract_from_multiple_files (lines 15-52)
RunMain ==
    /\ entry = "dir"
    /\ pc = "main"
    /\ IF ~MainImportsResolve
       THEN pc' = "import_error" /\ UNCHANGED <<file_paths, max_workers>>
       ELSE IF ~ConstructorAccepts
       THEN pc' = "init_error" /\ UNCHANGED <<file_paths, max_workers>>
       ELSE IF FilesToProcess(dirFiles) = {}
       THEN pc' = "no_files" /\ UNCHANGED <<file_paths, max_workers>>
       ELSE /\ pc' = "start"
            /\ file_paths' \in Orderings(FilesToProcess(dirFiles))
            /\ max_workers' = Imported("MAX_WORKERS")
    /\ UNCHANGED <<entry, dirFiles, outputs, poolVars, clsExt, clsOut>>

\* return results (line 194); in a directory run the caller then saves every
\* entry (main.py lines 53-57)
Return ==
    /\ pc = "return"
    /\ pc' = "returned"
    /\ IF entry = "dir"
       THEN outputs' \in SaveAll(results)
       ELSE UNCHANGED outputs
    /\ UNCHANGED <<entry, dirFiles, file_paths, max_workers, poolVars, clsExt, clsOut>>

(***************************************************************************)
(* The classifier alone.                                                   *)
(***************************************************************************)
InitClassify ==
    /\ entry = "classify"
    /\ dirFiles = {}
    /\ outputs = EmptyDict
    /\ file_paths = <<>>
    /\ max_workers = 0
    /\ pc = "classify"
    /\ NoPool
    /\ clsExt \in ExtUniverse
    /\ clsOut = Pending

Classify ==
    /\ pc = "classify"
    /\ pc' = "classified"
    /\ clsOut' = [file_type |-> FileTypeOfExt(clsExt), mime |-> MimeTypeOfExt(clsExt)]
    /\ UNCHANGED <<entry, dirFiles, outputs, file_paths, max_workers, poolVars, clsExt>>

(***************************************************************************)
(* Specifications.                                                         *)
(***************************************************************************)
Init == InitApi \/ InitDir

Next ==
    \/ RunMain
    \/ CreateExecutor
    \/ Submit
    \/ BeginCollect
    \/ \E i \in 1..Len(file_paths) : TaskStart(i)
    \/ \E i \in 1..Len(file_paths) : TaskLocal(i)
    \/ \E i \in 1..Len(file_paths), resp \in Responses : EndpointReturn(i, resp)
    \/ \E i \in 1..Len(file_paths), cause \in ApiErrors : EndpointError(i, cause)
    \/ \E i \in 1..Len(file_paths) : Collect(i)
    \/ ExecutorExit
    \/ Return

Spec == Init /\ [][Next]_vars

\* The threads are scheduled and every call to the endpoint ends (it returns
\* or it raises): the run does not stop while some step of it is possible.
\* The runs: a directory run, or a call with paths that succeed or fail at
\* the endpoint (PngPath) or fail before it (MissingPath), on one worker or two.
InitFair ==
    \/ InitDir
    \/ /\ InitApi
       /\ \A k \in DOMAIN file_paths : file_paths[k] \in {PngPath, MissingPath}
       /\ max_workers \in {1, 2}

FairSpec == InitFair /\ [][Next]_vars /\ WF_vars(Next)

SpecClassify == InitClassify /\ [][Classify]_vars

(***************************************************************************)
(* Properties.                                                             *)
(***************************************************************************)
DistinctPaths ==
    \A i, j \in 1..Len(file_paths) : i # j => file_paths[i] # file_paths[j]

PathStrings == { file_paths[i] : i \in 1..Len(file_paths) }

FailedEntries == { k \in DOMAIN results : IsFailureRecord(results[k]) }

FailedTasks == { i \in DOMAIN st : st[i] = "failed" }

\* the entry the collector stores for a finished task
EntryOf(i) ==
    IF outcome[i].ok THEN outcome[i].value
    ELSE FailureRecord(file_paths[i], outcome[i].exc)

ApiReturned == entry = "api" /\ pc = "returned"

\* C1 as stated: when extract_from_multiple_files returns, the result map has
\* exactly N entries for N input paths, whichever tasks failed.
C1_ExactlyN == ApiReturned => Cardinality(DOMAIN results) = Len(file_paths)

\* C1 as amended: when extract_from_multiple_files returns, the result map has
\* exactly one entry per distinct input path string, whichever tasks failed and
\* whatever max_workers is; so it has N entries when the N paths are pairwise
\* distinct.
C1_OnePerDistinctPath ==
    ApiReturned =>
        /\ DOMAIN results = PathStrings
        /\ DistinctPaths => Cardinality(DOMAIN results) = Len(file_paths)

C1_Witness ==
    /\ ApiReturned
    /\ Len(file_paths) = 2
    /\ DistinctPaths
    /\ \E i, j \in DOMAIN st : st[i] = "failed" /\ st[j] = "ok"
    /\ Cardinality(DOMAIN results) = 2

\* C2 as stated: with K failing tasks out of N, exactly K entries of the
\* returned map are failure records.
C2_KFailedEntries == ApiReturned => Cardinality(FailedEntries) = Cardinality(FailedTasks)

\* C2 as amended: no exception of a task leaves extract_from_multiple_files;
\* every entry is the failure record or the extraction result of a task of
\* that path; and when the paths are pairwise distinct the entry of a path is
\* a failure record iff its task raised and is the task's result otherwise,
\* so K failing tasks give exactly K failed entries.
C2_FailuresIsolated ==
    /\ pc # "raised"
    /\ ApiReturned =>
        /\ \A k \in DOMAIN results :
             \E i \in DOMAIN st : file_paths[i] = k /\ results[k] = EntryOf(i)
        /\ DistinctPaths =>
             /\ \A i \in DOMAIN st :
                  /\ IsFailureRecord(results[file_paths[i]]) <=> st[i] = "failed"
                  /\ st[i] = "ok" => results[file_paths[i]] = outcome[i].value
             /\ Cardinality(FailedEntries) = Cardinality(FailedTasks)

C2_Witness ==
    /\ ApiReturned
    /\ DistinctPaths
    /\ Len(file_paths) = 2
    /\ Cardinality(FailedTasks) = 1
    /\ Cardinality(FailedEntries) = 1
    /\ \E i \in DOMAIN st : st[i] = "failed" /\ calls[i] = 1

\* C3: when extract_from_multiple_files returns, no task is queued or in
\* flight: every submitted task has completed, its future has been collected
\* and its outcome written to the result map.
C3_ReturnsAfterAll ==
    pc \in {"return", "returned"} =>
        /\ submitted = Len(file_paths)
        /\ queue = <<>>
        /\ InFlight = {}
        /\ \A i \in 1..Len(file_paths) :
             /\ st[i] \in {"ok", "failed"}
             /\ i \in collected
             /\ writes[i] >= 1
             /\ file_paths[i] \in DOMAIN results

C3_Witness ==
    /\ pc = "returned"
    /\ Len(file_paths) = 2
    /\ max_workers = 1
    /\ \A i \in DOMAIN st : st[i] \in {"ok", "failed"}

\* C4: under fair scheduling every path's task is submitted, runs to
\* completion and has its future collected; no task leaves the queue or a worker other than by
\* completing (none is cancelled or skipped, whatever its siblings do); and a
\* completed task's outcome is never changed afterwards.
C4_NoCancellation ==
    /\ entry = "api" =>
         <>(/\ submitted = Len(file_paths)
            /\ DOMAIN st = 1..Len(file_paths)
            /\ \A i \in DOMAIN st : st[i] \in {"ok", "failed"} /\ i \in collected)
    /\ [][ \A i \in DOMAIN st :
             /\ st[i] \in {"queued", "running", "calling"}
                  => st'[i] \in {"queued", "running", "calling", "ok", "failed"}
             /\ st[i] \in {"ok", "failed"}
                  => st'[i] = st[i] /\ outcome'[i] = outcome[i] ]_vars

C4_Witness ==
    /\ max_workers = 1
    /\ Len(file_paths) = 2
    /\ DOMAIN st = {1, 2}
    /\ st[1] = "failed"
    /\ st[2] = "ok"
    /\ collected = {1, 2}
    /\ results[file_paths[2]] = outcome[2].value

\* C5: at every moment at most max_workers tasks are in flight (no more
\* threads than max_workers exist), and a submitted task that no worker has
\* taken waits in the queue.
C5_BoundedInFlight ==
    /\ Cardinality(InFlight) <= numThreads
    /\ numThreads <= max_workers
    /\ \A i \in DOMAIN st :
         st[i] = "queued" <=> \E k \in DOMAIN queue : queue[k] = i

C5_Witness ==
    /\ max_workers >= 1
    /\ Cardinality(InFlight) = max_workers
    /\ queue # <<>>

\* C6 as stated: no key of the result map is written twice.
C6_NoKeyWrittenTwice ==
    \A i, j \in DOMAIN writes :
        (i # j /\ writes[i] >= 1 /\ writes[j] >= 1)
            => StrOf(file_paths[i]) # StrOf(file_paths[j])

\* C6 as amended: each completed task causes exactly one write to the result
\* map, under the key of its own path; when the input paths are pairwise
\* distinct the keys are pairwise distinct, so no key is written twice and
\* every collected task's outcome stays in the map.
C6_OneWritePerTask ==
    /\ \A i \in DOMAIN writes : writes[i] = IF i \in collected THEN 1 ELSE 0
    /\ DistinctPaths =>
         /\ \A i, j \in DOMAIN writes :
              i # j => StrOf(file_paths[i]) # StrOf(file_paths[j])
         /\ \A i \in collected : results[StrOf(file_paths[i])] = EntryOf(i)

C6_Witness ==
    /\ DistinctPaths
    /\ Len(file_paths) = 2
    /\ DOMAIN st = {1, 2}
    /\ collected = {1, 2}
    /\ writes[1] = 1 /\ writes[2] = 1
    /\ st[1] # st[2]

\* C7: no task calls the endpoint more than once; the call is issued when the
\* task passes from its local steps to "calling" and never again; and a task
\* whose call failed ends failed with that call's error.
C7_NoRetry ==
    \A i \in DOMAIN calls :
        /\ calls[i] <= 1
        /\ st[i] \in {"none", "queued", "running"} => calls[i] = 0
        /\ st[i] \in {"calling", "ok"} => calls[i] = 1
        /\ (st[i] = "failed" /\ calls[i] = 1)
             => /\ ~outcome[i].ok
                /\ \E cause \in ApiErrors :
                     outcome[i].exc.msg[4] = <<"Error during API call: ", cause>>

C7_Witness ==
    \E i \in DOMAIN calls :
        /\ st[i] = "failed"
        /\ calls[i] = 1
        /\ outcome[i].exc.msg[4] = <<"Error during API call: ", "rate limit exceeded">>
        /\ i \in collected
        /\ IsFailureRecord(results[file_paths[i]])

\* the extensions C8 names, as the claim lists them
C8_ImageExts ==
    { <<".","p","n","g">>, <<".","j","p","g">>, <<".","j","p","e","g">>,
      <<".","g","i","f">>, <<".","w","e","b","p">> }

C8_PdfExts == { <<".","p","d","f">> }

\* clsExt, lower-cased, is e: clsExt is e with some of its letters in upper case
C8_LowersTo(e) == clsExt \in CaseVariants(e)

C8_TableMime(e) ==
    /\ \E m \in mime_types : m[1] = e /\ m[2] = clsOut.mime
    /\ clsOut.mime # MimeFallback
    /\ clsOut.mime # ""

\* C8: an extension that lower-cases to .png .jpg .jpeg .gif or .webp is
\* classified "image", one that lower-cases to .pdf is classified "pdf", in
\* both cases the MIME lookup gives the table's entry for it and never the
\* fallback; every other extension raises the unsupported-format error.
C8_Classifier ==
    pc = "classified" =>
        /\ \A e \in C8_ImageExts :
             C8_LowersTo(e) =>
                 /\ clsOut.file_type.ok
                 /\ clsOut.file_type.kind = "image"
                 /\ C8_TableMime(e)
        /\ \A e \in C8_PdfExts :
             C8_LowersTo(e) =>
                 /\ clsOut.file_type.ok
                 /\ clsOut.file_type.kind = "pdf"
                 /\ C8_TableMime(e)
        /\ (\A e \in C8_ImageExts \cup C8_PdfExts : ~C8_LowersTo(e)) =>
                 /\ ~clsOut.file_type.ok
                 /\ clsOut.file_type.exc.type = "ValueError"
                 /\ clsOut.file_type.exc.msg[1] = "Unsupported file format: "

C8_Witness ==
    /\ pc = "classified"
    /\ clsExt = <<".","W","e","b","P">>
    /\ clsOut.file_type.ok
    /\ clsOut.file_type.kind = "image"
    /\ clsOut.mime = "image/webp"

\* C9: every successful task's result holds exactly the fields the endpoint
\* returned for it, unchanged, plus _metadata, which is no field of the
\* returned data and carries the classifier's kind, the processor's model
\* and the three token counters of the answer.
C9_ResultIsAnswerPlusMetadata ==
    \A i \in DOMAIN st :
        st[i] = "ok" =>
            LET v == outcome[i].value
                a == answer[i] IN
            /\ "_metadata" \notin DOMAIN a.content
            /\ DOMAIN v = (DOMAIN a.content) \cup {"_metadata"}
            /\ \A f \in DOMAIN a.content : v[f] = a.content[f]
            /\ v["_metadata"].file_type = _get_file_type(file_paths[i]).kind
            /\ v["_metadata"].model_used = DefaultModel
            /\ v["_metadata"].completion_tokens = a.usage.completion_tokens
            /\ v["_metadata"].prompt_tokens = a.usage.prompt_tokens
            /\ v["_metadata"].total_tokens = a.usage.total_tokens

RunEnded == pc \in {"returned", "import_error", "init_error", "no_files"}

\* C10: when a directory run has ended, the output directory holds one file
\* per supported input file, named <stem>_extracted_<model>_v1.json.
C10_OneArtifactPerInput ==
    (entry = "dir" /\ RunEnded) =>
        /\ Cardinality(DOMAIN outputs) = Cardinality(FilesToProcess(dirFiles))
        /\ \A f \in FilesToProcess(dirFiles) : OutputFile(f) \in DOMAIN outputs

\* the output names of two supported files of one directory differ
C10_OutputNamesDiffer ==
    \A f, g \in FilesToProcess(dirFiles) : f # g => OutputFile(f) # OutputFile(g)

EmptyCall == entry = "api" /\ file_paths = <<>>

\* C11 as stated: a call with no paths never creates the worker pool.
C11_NoPoolCreated == EmptyCall => ~executor

\* C11 as amended: a call with no paths returns an empty result map, for
\* every max_workers; the executor of the with-block is created and shut
\* down, but it starts no worker thread and no task is submitted to it.
C11_EmptyCallIdlePool ==
    EmptyCall =>
        /\ numThreads = 0
        /\ submitted = 0
        /\ queue = <<>>
        /\ DOMAIN st = {}
        /\ DOMAIN results = {}
        /\ pc = "returned" => ~executor

C11_Witness ==
    /\ EmptyCall
    /\ pc = "returned"
    /\ max_workers > 1
    /\ DOMAIN results = {}
    /\ numThreads = 0

\* the path's extension is none of those the classifier recognizes
C12_Unrecognized(p) == Lower(Suffix(p)) \notin C8_ImageExts \cup C8_PdfExts

\* the error a failed task reports: the message its exception was wrapped around
C12_Cause(i) == outcome[i].exc.msg[4][1]

C12_Done(i) == st[i] \in {"ok", "failed"}

\* C12 as stated: a task whose path has an unrecognized extension fails with
\* the unsupported-format error whether or not the file exists, a missing
\* file with a recognized extension fails with the file-not-found error, and
\* in both cases the endpoint is not called.
C12_ClassifyBeforeExistence ==
    \A i \in DOMAIN st :
        C12_Done(i) =>
            /\ C12_Unrecognized(file_paths[i]) =>
                 /\ st[i] = "failed"
                 /\ C12_Cause(i) = "Unsupported file format: "
                 /\ calls[i] = 0
            /\ (~C12_Unrecognized(file_paths[i]) /\ file_paths[i] \notin ExistingFiles) =>
                 /\ st[i] = "failed"
                 /\ C12_Cause(i) = "File not found: "
                 /\ calls[i] = 0

\* C12 as amended: each task first checks that the file exists, then
\* classifies it, then encodes it and calls the endpoint, and the first
\* failing step gives the task's error: a missing file fails with the
\* file-not-found error whatever its extension, an existing file with an
\* unrecognized extension fails with the unsupported-format error, in both
\* cases the endpoint is not called, and it is called only for an existing
\* file with a recognized extension.
C12_ExistenceBeforeClassify ==
    \A i \in DOMAIN st :
        /\ calls[i] >= 1 =>
             file_paths[i] \in ExistingFiles /\ ~C12_Unrecognized(file_paths[i])
        /\ C12_Done(i) =>
             /\ file_paths[i] \notin ExistingFiles =>
                  /\ st[i] = "failed"
                  /\ C12_Cause(i) = "File not found: "
                  /\ calls[i] = 0
             /\ (file_paths[i] \in ExistingFiles /\ C12_Unrecognized(file_paths[i])) =>
                  /\ st[i] = "failed"
                  /\ C12_Cause(i) = "Unsupported file format: "
                  /\ calls[i] = 0

C12_Witness ==
    \E i \in DOMAIN st :
        /\ file_paths[i] = MissingDocPath
        /\ st[i] = "failed"
        /\ C12_Cause(i) = "File not found: "
        /\ calls[i] = 0
        /\ i \in collected
        /\ \E j \in DOMAIN st :
             /\ file_paths[j] = TxtPath
             /\ st[j] = "failed"
             /\ C12_Cause(j) = "Unsupported file format: "

====
